---- MODULE Spec2Model ----
(***************************************************************************)
(* A model of the dice-betting simulation of src/main.rs: the Dice value   *)
(* type with its payout rule, the three Powers, the four strategies, one   *)
(* trial (Strategy::outcome), the streaming mean (Average::average), the   *)
(* per-strategy table (Strategy::avg_outcome) and the driver (main).       *)
(*                                                                         *)
(* Four specifications  share the variables:                               *)
(*   DiceSpec   the Dice methods and choose_power applied to any inputs;   *)
(*   TrialSpec  one call of Strategy::outcome, statement by statement;     *)
(*   BetSpec    the averaging avg_outcome does for one bet;                 *)
(*   MainSpec   main: four avg_outcome calls and the printed tables.       *)
(***************************************************************************)
EXTENDS Integers, Sequences, FiniteSets, TLC

\* ------------------------------------------------------------------ bounds

\* Largest trial count the driver is run with (main.rs fixes 1_000_000).
MaxTrials == 1

\* Largest trial count one bet is averaged over in BetSpec.
MaxItems == 3

\* ------------------------------------------------------------ value domain

\* u8 arithmetic wraps at 2^8.
U8 == 256

\* rng.gen_range(1, 7): the half-open range [1, 7).
Faces == 1..6

\* (2..=12) in avg_outcome.
Bets == 2..12

Powers == {"None", "Reroll", "FlipOne"}

Strategies == {"NoPower", "RerollIfLosing", "AlwaysFlip", "RerollIfLosingOrFlip"}

\* Placeholder for a Dice binding that has not been evaluated yet.
NoDice == [d1 |-> 0, d2 |-> 0]

\* ------------------------------------------------------------------- Dice

\* Fault: new without the swap.
new_unsorted(d1, d2) == [d1 |-> d1, d2 |-> d2]

\* Dice::new: the pair, smaller face first.
new(d1, d2) ==
    IF d1 <= d2 THEN [d1 |-> d1, d2 |-> d2] ELSE [d1 |-> d2, d2 |-> d1]

\* Dice::roll: every pair the two gen_range draws can give, through new.
roll == { new(a, b) : a \in Faces, b \in Faces }

\* Dice::sum
sum(self) == (self.d1 + self.d2) % U8

\* Fault: the FlipOne arm matching 1 | 2 only.
FlipOne_low_two(self) ==
    IF self.d1 \in {1, 2} THEN new(4, self.d2) ELSE self

\* Fault: the FlipOne arm replacing the higher die.
FlipOne_high(self) ==
    IF self.d1 \in {1, 2, 3} THEN new(self.d1, 4) ELSE self

\* The Power::FlipOne arm of Dice::modify.
FlipOne(self) ==
    IF self.d1 \in {1, 2, 3} THEN new(4, self.d2) ELSE self

\* Dice::modify: the set of Dice the call can return (Reroll is random).
modify(self, power) ==
    CASE power = "None" -> {self}
      [] power = "Reroll" -> roll
      [] power = "FlipOne" -> {FlipOne(self)}

\* Fault: gold comparing bet < sum.
gold_strict(self, bet) ==
    IF bet < sum(self) THEN bet ELSE 2

\* Dice::gold
gold(self, bet) ==
    IF bet <= sum(self) THEN bet ELSE 2

\* ------------------------------------------------------------- strategies

RerollIfLosing_choose_power(bet, dice) ==
    IF sum(dice) < bet THEN "Reroll" ELSE "None"

\* Fault: the flip test comparing bet < sum.
RerollIfLosingOrFlip_strict(bet, dice) ==
    IF bet <= sum(dice) THEN "None"
    ELSE IF bet < sum(FlipOne(dice)) THEN "FlipOne"
    ELSE "Reroll"

RerollIfLosingOrFlip_choose_power(bet, dice) ==
    IF bet <= sum(dice) THEN "None"
    ELSE IF bet <= sum(FlipOne(dice)) THEN "FlipOne"
    ELSE "Reroll"

AlwaysFlip_choose_power(bet, dice) == "FlipOne"

NoPower_choose_power(bet, dice) == "None"

\* Static dispatch of Self::choose_power on the implementing type.
choose_power(strategy, bet, dice) ==
    CASE strategy = "NoPower" -> NoPower_choose_power(bet, dice)
      [] strategy = "RerollIfLosing" -> RerollIfLosing_choose_power(bet, dice)
      [] strategy = "AlwaysFlip" -> AlwaysFlip_choose_power(bet, dice)
      [] strategy = "RerollIfLosingOrFlip" ->
            RerollIfLosingOrFlip_choose_power(bet, dice)

\* ------------------------------------------------------------------ trial

\* Fault: the payout taken of the dice as rolled.
outcome_gold_of_roll(b, d, modified) == gold(d, b)

\* The payout outcome returns: gold(bet) of the Dice modify returned, where
\* d is the Dice rolled and modified the result of d.modify(..).
outcome_gold(b, d, modified) == gold(modified, b)

\* Every payout one call of S::outcome(b) can return.
outcome_values(s, b) ==
    UNION { { outcome_gold(b, d, m) : m \in modify(d, choose_power(s, b, d)) } :
            d \in roll }

\* ---------------------------------------------------------------- average
\* f64 values are modelled exactly: every sum and count average handles is
\* an integer far below 2^53, and a quotient is kept as a fraction in
\* lowest terms.

RECURSIVE gcd(_, _)
gcd(a, b) == IF b = 0 THEN a ELSE gcd(b, a % b)

NaN == [num |-> 0, den |-> 0]

Infinity == [num |-> 1, den |-> 0]

\* x / y on non-negative f64 integers.
f64_div(x, y) ==
    IF y = 0 THEN (IF x = 0 THEN NaN ELSE Infinity)
    ELSE [num |-> x \div gcd(x, y), den |-> y \div gcd(x, y)]

\* Fault: the count taken as n instead of n + 1.
enumerate_map_from_zero(items) ==
    [i \in 1..Len(items) |-> <<i - 1, items[i]>>]

\* Iterator::enumerate(self).map(|(n, item)| ((n + 1) as f64, item)):
\* the i-th item (i from 1) has index n = i - 1.
enumerate_map(items) ==
    [i \in 1..Len(items) |-> <<(i - 1) + 1, items[i]>>]

\* Fault: the fold closure dropping the accumulated sum.
fold_step_keeps_item(acc_n, n_item) == <<n_item[2], n_item[1]>>

\* The fold closure |(acc, _), (n, item)| (acc + item, n).
fold_step(acc_n, n_item) == <<acc_n[1] + n_item[2], n_item[1]>>

RECURSIVE fold_from(_, _, _)
fold_from(acc_n, elems, i) ==
    IF i > Len(elems) THEN acc_n
    ELSE fold_from(fold_step(acc_n, elems[i]), elems, i + 1)

\* let (sum, n) = ... .fold((0.0, 0.0), ..)
average_fold(items) == fold_from(<<0, 0>>, enumerate_map(items), 1)

\* Average::average: sum / n
average(items) == f64_div(average_fold(items)[1], average_fold(items)[2])

\* ----------------------------------------------------------------- output

\* A printed line: its fixed text and the number formatted into it.  The
\* expectation column of a data row is not recorded.
Line(kind, text, num) == [kind |-> kind, text |-> text, num |-> num]

\* Fault: the bet column printed as i + 1.
row_from_one(i, x) == Line("row", " | ", i + 1)

\* writeln!(f, " {:>2} | {:>16.2}", i + 2, outcome)
row(i, x) == Line("row", " | ", i + 2)

\* impl fmt::Display for Outcome: i enumerates self.0 from 0.
fmt(o) ==
    <<Line("text", "Bet | Exp", 0), Line("text", "--- | ---", 0)>> \o
    [k \in 1..Len(o) |-> row(k - 1, o[k])]

\* The four println!(label, S::avg_outcome(trials)) statements of main.
main_calls ==
    << [label |-> "No change:", strategy |-> "NoPower"],
       [label |-> "Reroll if losing:", strategy |-> "RerollIfLosing"],
       [label |-> "Flip if sum is < 5:", strategy |-> "AlwaysFlip"],
       [label |-> "If losing, flip (if applicable) or reroll:",
        strategy |-> "RerollIfLosingOrFlip"] >>

\* ------------------------------------------------------------------ state

VARIABLES
    dice,       \* DiceSpec: the Dice value the next method is called on
    call,       \* DiceSpec: the last call made, with its arguments and result
    pc,         \* TrialSpec / MainSpec: the statement to execute next
    strategy,   \* the type Strategy's methods are called on
    bet,        \* outcome's argument / avg_outcome's current bet
    rolled,     \* outcome: `dice`, the result of Dice::roll()
    power,      \* outcome: the result of Self::choose_power(bet, dice)
    final,      \* outcome: the result of dice.modify(power)
    ret,        \* outcome: the returned payout
    trace,      \* outcome: the calls made so far, in order
    trials,     \* main: `trials`
    fold,       \* average: the pair (sum, n) the last fold ended with
    seen,       \* average: <<number, total>> of the items its iterator yielded
    outcome,    \* avg_outcome: the means collected so far
    stdout      \* main: the lines printed so far

vars == <<dice, call, pc, strategy, bet, rolled, power, final, ret, trace,
          trials, fold, seen, outcome, stdout>>

trialVars == <<pc, strategy, bet, rolled, power, final, ret, trace>>

mainVars == <<trials, fold, seen, outcome, stdout>>

\* --------------------------------------------------------------- DiceSpec

NoCall ==
    [fn |-> "none", self |-> NoDice, bet |-> 0, power |-> "-",
     strategy |-> "-", ret_dice |-> NoDice, ret_u8 |-> 0, ret_power |-> "-"]

Idle ==
    /\ pc = "idle" /\ strategy = "-" /\ bet = 0
    /\ rolled = NoDice /\ power = "-" /\ final = NoDice /\ ret = 0
    /\ trace = << >>

NoRun ==
    /\ trials = 0 /\ fold = <<0, 0>> /\ seen = <<0, 0>>
    /\ outcome = << >> /\ stdout = << >>

DiceInit ==
    /\ dice \in { new(a, b) : a \in Faces, b \in Faces }
    /\ call = NoCall
    /\ Idle
    /\ NoRun

\* Dice::new(a, b)
DiceNew(a, b) ==
    /\ dice' = new(a, b)
    /\ call' = [NoCall EXCEPT !.fn = "new", !.ret_dice = new(a, b)]
    /\ UNCHANGED <<trialVars, mainVars>>

\* Dice::roll()
DiceRoll ==
    /\ dice' \in roll
    /\ call' = [NoCall EXCEPT !.fn = "roll", !.ret_dice = dice']
    /\ UNCHANGED <<trialVars, mainVars>>

\* dice.modify(p); the result becomes the value the next call is made on.
DiceModify(p) ==
    /\ dice' \in modify(dice, p)
    /\ call' = [NoCall EXCEPT !.fn = "modify", !.self = dice, !.power = p,
                              !.ret_dice = dice']
    /\ UNCHANGED <<trialVars, mainVars>>

\* dice.gold(b)
DiceGold(b) ==
    /\ call' = [NoCall EXCEPT !.fn = "gold", !.self = dice, !.bet = b,
                              !.ret_u8 = gold(dice, b)]
    /\ UNCHANGED <<dice, trialVars, mainVars>>

\* S::choose_power(b, dice)
DiceChoosePower(s, b) ==
    /\ call' = [NoCall EXCEPT !.fn = "choose_power", !.self = dice,
                              !.bet = b, !.strategy = s,
                              !.ret_power = choose_power(s, b, dice)]
    /\ UNCHANGED <<dice, trialVars, mainVars>>

DiceNext ==
    \/ \E a \in Faces, b \in Faces : DiceNew(a, b)
    \/ DiceRoll
    \/ \E p \in Powers : DiceModify(p)
    \/ \E b \in Bets : DiceGold(b)
    \/ \E s \in Strategies, b \in Bets : DiceChoosePower(s, b)

DiceSpec == DiceInit /\ [][DiceNext]_vars

\* -------------------------------------------------------------- TrialSpec
\* One call S::outcome(bet), one evaluation step per action.  trace lists
\* the calls outcome makes, and the Dice::roll call modify makes for Reroll.

TrialInit ==
    /\ dice = NoDice
    /\ call = NoCall
    /\ pc = "roll"
    /\ strategy \in Strategies
    /\ bet \in Bets
    /\ rolled = NoDice /\ power = "-" /\ final = NoDice /\ ret = 0
    /\ trace = << >>
    /\ NoRun

\* let dice = Dice::roll();
OutcomeRoll ==
    /\ pc = "roll"
    /\ rolled' \in roll
    /\ trace' = Append(trace, "roll")
    /\ pc' = "choose_power"
    /\ UNCHANGED <<dice, call, strategy, bet, power, final, ret, mainVars>>

\* Self::choose_power(bet, dice)
OutcomeChoosePower ==
    /\ pc = "choose_power"
    /\ power' = choose_power(strategy, bet, rolled)
    /\ trace' = Append(trace, "choose_power")
    /\ pc' = "modify"
    /\ UNCHANGED <<dice, call, strategy, bet, rolled, final, ret, mainVars>>

\* dice.modify(..)
OutcomeModify ==
    /\ pc = "modify"
    /\ final' \in modify(rolled, power)
    /\ trace' = trace \o <<"modify">> \o
                 (IF power = "Reroll" THEN <<"roll">> ELSE << >>)
    /\ pc' = "gold"
    /\ UNCHANGED <<dice, call, strategy, bet, rolled, power, ret, mainVars>>

\* .gold(bet), returned
OutcomeGold ==
    /\ pc = "gold"
    /\ ret' = outcome_gold(bet, rolled, final)
    /\ trace' = Append(trace, "gold")
    /\ pc' = "returned"
    /\ UNCHANGED <<dice, call, strategy, bet, rolled, power, final, mainVars>>

TrialNext ==
    \/ OutcomeRoll
    \/ OutcomeChoosePower
    \/ OutcomeModify
    \/ OutcomeGold

TrialSpec == TrialInit /\ [][TrialNext]_vars

\* --------------------------------------------------------------- MainSpec
\* main, with one action per println! and one per bet of avg_outcome's map.
\* call.bet holds the index in main_calls of the statement being executed.

RECURSIVE SumSeq(_, _)
SumSeq(items, i) == IF i > Len(items) THEN 0 ELSE items[i] + SumSeq(items, i + 1)

MainInit ==
    /\ dice = NoDice
    /\ call = NoCall
    /\ pc = "println_n"
    /\ strategy = "-" /\ bet = 0
    /\ rolled = NoDice /\ power = "-" /\ final = NoDice /\ ret = 0
    /\ trace = << >>
    /\ trials \in 0..MaxTrials
    /\ fold = <<0, 0>> /\ seen = <<0, 0>>
    /\ outcome = << >>
    /\ stdout = << >>

\* println!("n = {}", trials); then the first avg_outcome call begins.
MainPrintlnTrials ==
    /\ pc = "println_n"
    /\ stdout' = Append(stdout, Line("n", "n = ", trials))
    /\ call' = [call EXCEPT !.fn = "main", !.bet = 1]
    /\ strategy' = main_calls[1].strategy
    /\ bet' = 2
    /\ outcome' = << >>
    /\ pc' = "avg_outcome"
    /\ UNCHANGED <<dice, rolled, power, final, ret, trace, trials, fold, seen>>

\* One step of (2..=12).map(|bet| (0..trials).map(|_| outcome(bet) as f64)
\* .average()): the trials payouts for this bet are drawn and averaged.
AvgOutcomeBet ==
    /\ pc = "avg_outcome"
    /\ bet <= 12
    /\ \E items \in [1..trials -> outcome_values(strategy, bet)] :
          /\ fold' = average_fold(items)
          /\ seen' = <<Len(items), SumSeq(items, 1)>>
          /\ outcome' = Append(outcome, average(items))
    /\ bet' = bet + 1
    /\ UNCHANGED <<dice, call, pc, strategy, rolled, power, final, ret, trace,
                   trials, stdout>>

\* The range is exhausted: collect() ends, println!("<label>\n{}", Outcome)
\* prints the label, the table and the line end; then the next statement.
MainPrintlnTable ==
    /\ pc = "avg_outcome"
    /\ bet > 12
    /\ stdout' = stdout \o <<Line("label", main_calls[call.bet].label, 0)>>
                        \o fmt(outcome) \o <<Line("text", "", 0)>>
    /\ outcome' = << >>
    /\ fold' = <<0, 0>>
    /\ seen' = <<0, 0>>
    /\ IF call.bet < Len(main_calls)
       THEN /\ call' = [call EXCEPT !.bet = call.bet + 1]
            /\ strategy' = main_calls[call.bet + 1].strategy
            /\ bet' = 2
            /\ pc' = pc
       ELSE /\ call' = call
            /\ strategy' = "-"
            /\ bet' = 0
            /\ pc' = "exit"
    /\ UNCHANGED <<dice, rolled, power, final, ret, trace, trials>>

MainNext ==
    \/ MainPrintlnTrials
    \/ AvgOutcomeBet
    \/ MainPrintlnTable

\* main is one sequential thread: a step that can be taken is taken.
MainSpec == MainInit /\ [][MainNext]_vars /\ WF_vars(MainNext)

\* ---------------------------------------------------------------- BetSpec
\* The closure of avg_outcome's map applied once, to any bet, strategy and
\* trial count: (0..trials).map(|_| Self::outcome(bet) as f64).average().

BetInit ==
    /\ dice = NoDice
    /\ call = NoCall
    /\ pc = "avg_outcome"
    /\ strategy \in Strategies
    /\ bet \in Bets
    /\ rolled = NoDice /\ power = "-" /\ final = NoDice /\ ret = 0
    /\ trace = << >>
    /\ trials \in 0..MaxItems
    /\ fold = <<0, 0>> /\ seen = <<0, 0>>
    /\ outcome = << >>
    /\ stdout = << >>

BetNext == outcome = << >> /\ AvgOutcomeBet

BetSpec == BetInit /\ [][BetNext]_vars

\* ================================================================= claims

Min2(x, y) == IF x <= y THEN x ELSE y

Max2(x, y) == IF x >= y THEN x ELSE y

\* C1: for all faces a, b and every bet in 2..12, Dice::new(a,b).gold(bet)
\* returns exactly bet when a + b >= bet and exactly 2 otherwise.
C1_GoldPaysBetOrTwo ==
    call.fn = "gold" =>
        call.ret_u8 = (IF call.self.d1 + call.self.d2 >= call.bet
                       THEN call.bet ELSE 2)

\* A losing gold call has been made: Dice(1,1) against bet 12 paid 2.
C1_Witness ==
    /\ call.fn = "gold"
    /\ call.self = [d1 |-> 1, d2 |-> 1]
    /\ call.bet = 12
    /\ call.ret_u8 = 2

\* C2: every Dice produced by new, by roll or by any sequence of modify
\* calls has 1 <= d1 <= d2 <= 6.
C2_DiceSortedInRange ==
    /\ dice.d1 \in 1..6
    /\ dice.d2 \in 1..6
    /\ dice.d1 <= dice.d2

\* A modify(FlipOne) that had to reorder the pair: Dice(1,2) became Dice(2,4).
C2_Witness ==
    /\ call.fn = "modify"
    /\ call.power = "FlipOne"
    /\ call.self = [d1 |-> 1, d2 |-> 2]
    /\ dice = [d1 |-> 2, d2 |-> 4]

\* C3: modify(FlipOne) returns the sorted pair of 4 and d2 when d1 is 1, 2
\* or 3, and the input when d1 >= 4; Dice(1,5) gives Dice(4,5), Dice(3,3)
\* gives Dice(3,4), Dice(4,6) stays Dice(4,6).
C3_FlipOneResult ==
    (call.fn = "modify" /\ call.power = "FlipOne") =>
        /\ call.self.d1 \in {1, 2, 3} =>
              call.ret_dice = [d1 |-> Min2(4, call.self.d2),
                               d2 |-> Max2(4, call.self.d2)]
        /\ call.self.d1 >= 4 => call.ret_dice = call.self
        /\ call.self = [d1 |-> 1, d2 |-> 5] =>
              call.ret_dice = [d1 |-> 4, d2 |-> 5]
        /\ call.self = [d1 |-> 3, d2 |-> 3] =>
              call.ret_dice = [d1 |-> 3, d2 |-> 4]
        /\ call.self = [d1 |-> 4, d2 |-> 6] =>
              call.ret_dice = [d1 |-> 4, d2 |-> 6]

\* modify(FlipOne) was applied to Dice(3,3) and returned Dice(3,4).
C3_Witness ==
    /\ call.fn = "modify"
    /\ call.power = "FlipOne"
    /\ call.self = [d1 |-> 3, d2 |-> 3]
    /\ call.ret_dice = [d1 |-> 3, d2 |-> 4]

\* The sum of a Dice after the flip the claims describe: the lower die
\* replaced by 4 when it shows 1, 2 or 3.
FlippedSum(d) == IF d.d1 \in {1, 2, 3} THEN 4 + d.d2 ELSE d.d1 + d.d2

\* C4: RerollIfLosingOrFlip::choose_power returns None when bet <= sum,
\* else FlipOne when bet <= the sum after FlipOne, else Reroll; for bet 7
\* and Dice(2,3) it returns FlipOne.
C4_FlipBeforeReroll ==
    (call.fn = "choose_power" /\ call.strategy = "RerollIfLosingOrFlip") =>
        /\ call.ret_power =
              (IF call.bet <= call.self.d1 + call.self.d2 THEN "None"
               ELSE IF call.bet <= FlippedSum(call.self) THEN "FlipOne"
               ELSE "Reroll")
        /\ (call.bet = 7 /\ call.self = [d1 |-> 2, d2 |-> 3]) =>
              call.ret_power = "FlipOne"

\* choose_power(7, Dice(2,3)) was evaluated and chose FlipOne.
C4_Witness ==
    /\ call.fn = "choose_power"
    /\ call.strategy = "RerollIfLosingOrFlip"
    /\ call.bet = 7
    /\ call.self = [d1 |-> 2, d2 |-> 3]
    /\ call.ret_power = "FlipOne"

\* The totals n payouts can reach when each is 2 (a loss) or b (a win).
PayoutTotals(b, n) == { 2 * (n - w) + b * w : w \in 0..n }

\* The mean at position i (from 1) belongs to bet i + 1: times trials it
\* is a total of `trials` payouts, each 2 or that bet.
MeanOfBet(x, b, n) ==
    /\ x.den > 0
    /\ n % x.den = 0
    /\ x.num * (n \div x.den) \in PayoutTotals(b, n)

C6_TrialOrder ==
    pc = "returned" =>
        /\ trace = <<"roll", "choose_power", "modify">> \o
                    (IF power = "Reroll" THEN <<"roll">> ELSE << >>) \o
                    <<"gold">>
        /\ power = choose_power(strategy, bet, rolled)
        /\ power = "None" => final = rolled
        /\ ret = (IF bet <= final.d1 + final.d2 THEN bet ELSE 2)

\* A trial that rerolled a losing roll into a winning one and paid the bet.
C6_Witness ==
    /\ pc = "returned"
    /\ power = "Reroll"
    /\ rolled.d1 + rolled.d2 < bet
    /\ final.d1 + final.d2 >= bet
    /\ ret = bet

\* C7: under NoPower at bet 2 the payouts total 2 * trials and the mean is
\* exactly 2, for every trial count >= 1.
C7_NoPowerBetTwo ==
    (strategy = "NoPower" /\ pc = "avg_outcome" /\ trials >= 1
        /\ Len(outcome) >= 1 /\ bet - Len(outcome) = 2) =>
        /\ outcome[1] = [num |-> 2, den |-> 1]
        /\ Len(outcome) = 1 => fold = <<2 * trials, trials>>

\* NoPower's bet 2 has been averaged over three trials.
C7_Witness ==
    /\ strategy = "NoPower"
    /\ pc = "avg_outcome"
    /\ trials = 3
    /\ bet = 3
    /\ Len(outcome) = 1
    /\ fold = <<6, 3>>

\* The labels main prints, in the order of the strategies NoPower,
\* RerollIfLosing, AlwaysFlip, RerollIfLosingOrFlip.
ClaimedLabels ==
    <<"No change:", "Reroll if losing:", "Flip if sum is < 5:",
      "If losing, flip (if applicable) or reroll:">>

\* Lines per printed table: label, header, separator, 11 rows, line end.
TableLines == 1 + 2 + 11 + 1

Printed ==
    /\ Len(stdout) = 1 + 4 * TableLines
    /\ stdout[1].kind = "n" /\ stdout[1].num = trials
    /\ \A t \in 0..3 :
          /\ stdout[2 + t * TableLines].kind = "label"
          /\ stdout[2 + t * TableLines].text = ClaimedLabels[t + 1]
          /\ \A j \in 1..11 :
                /\ stdout[4 + t * TableLines + j].kind = "row"
                /\ stdout[4 + t * TableLines + j].num = j + 1
          /\ Cardinality({ k \in 1..TableLines :
                 stdout[1 + t * TableLines + k].kind = "row" }) = 11

\* C8: the driver terminates, having printed the trial-count line and then
\* four tables in the fixed order, each with exactly 11 data rows whose
\* bets are 2, 3, ..., 12 ascending.
C8_TerminatesWithTables == <>(pc = "exit" /\ Printed)

\* main has returned with all four tables on stdout.
C8_Witness ==
    /\ pc = "exit"
    /\ trials >= 1
    /\ Len(stdout) = 1 + 4 * TableLines
    /\ stdout[Len(stdout) - 1].num = 12

\* C9: the strategy printed as "Flip if sum is < 5" leaves every roll whose
\* sum is >= 5 unchanged.
C9_FlipOnlyBelowFive ==
    (strategy = "AlwaysFlip" /\ pc = "returned"
        /\ rolled.d1 + rolled.d2 >= 5) => final = rolled

\* C10: the sum after modify(FlipOne) is max(d1+d2, 4+d2, d1+4), and for
\* every bet the payout after FlipOne is not below the payout before.
C10_FlipOneIsBestFlip ==
    (call.fn = "modify" /\ call.power = "FlipOne") =>
        /\ call.ret_dice.d1 + call.ret_dice.d2 =
              Max2(call.self.d1 + call.self.d2,
                   Max2(4 + call.self.d2, call.self.d1 + 4))
        /\ \A b \in Bets : gold(call.ret_dice, b) >= gold(call.self, b)

\* modify(FlipOne) turned Dice(2,6) into Dice(4,6): sum 8 became 10.
C10_Witness ==
    /\ call.fn = "modify"
    /\ call.power = "FlipOne"
    /\ call.self = [d1 |-> 2, d2 |-> 6]
    /\ call.ret_dice = [d1 |-> 4, d2 |-> 6]

====
